---------------------------- MODULE Spec2Model ----------------------------
(***************************************************************************)
(* A model of yew's VList (packages/yew/src/virtual_dom/vlist.rs): the     *)
(* child list with its cached fully_keyed flag, and the reconciliation of  *)
(* a new child list ("lefts") against the previously rendered one          *)
(* ("rights") by VList::apply, apply_unkeyed and apply_keyed.              *)
(*                                                                         *)
(* The render target is a sequence of handles `dom`.  Every VNode is a     *)
(* record [key, h]: its key (NoKey when it has none) and the handle it is  *)
(* rendered as (Null before it has been applied).  Every call the list     *)
(* makes on a child (apply, detach, move_before) is appended to `log`.     *)
(***************************************************************************)
EXTENDS Integers, Sequences, FiniteSets, TLC

\* ------------------------------------------------------------------ bounds
\* Keys are 1..NumKeys; lists have at most MaxLen children.
NumKeys == 5
MaxLen == 5
\* add_child is offered to the builder while the list is shorter than MaxAdd.
MaxAdd == 2
\* Lists with a key that occurs twice have at most MaxDup children.
MaxDup == 3
\* Server-side rendering: at most MaxSsr children, each writing a fragment of
\* at most MaxFrag pieces.
MaxSsr == 3
MaxFrag == 2
\* VList::shift is followed for lists of at most MaxShift children.
MaxShift == 3

\* ------------------------------------------------------------------ values
NoKey == 0
Keys == 1..NumKeys

\* Handles of the render target.  Null is the empty NodeRef (end of parent).
Null == <<"null", 0>>
\* The caller's next sibling, and a sibling that precedes the list.
Sib == <<"sib", 0>>
Prev == <<"prev", 0>>
\* The handle the i-th previously rendered child is rendered as.
RHandle(i) == <<"r", i>>
\* The handle created for the i-th new child when it is rendered afresh.
LHandle(i) == <<"l", i>>

Min(a, b) == IF a < b THEN a ELSE b
Reverse(s) == [i \in 1..Len(s) |-> s[Len(s) + 1 - i]]
Range(s) == {s[i] : i \in 1..Len(s)}
Injective(s) == \A i, j \in 1..Len(s) : s[i] = s[j] => i = j
KeysOf(ns) == [i \in 1..Len(ns) |-> ns[i].key]
HandlesOf(ns) == [i \in 1..Len(ns) |-> ns[i].h]
\* All orders in which a set of keys can be enumerated.
Orders(S) == {s \in [1..Cardinality(S) -> S] : Injective(s)}

\* VNode::has_key
HasKey(n) == n.key # NoKey
\* children.iter().all(|ch| ch.has_key())
AllKeyed(ns) == \A i \in 1..Len(ns) : HasKey(ns[i])

\* A node that has not been rendered, and a node rendered by an earlier pass.
Fresh(k) == [key |-> k, h |-> Null]
Rendered(k, i) == [key |-> k, h |-> RHandle(i)]
\* VText::new("").into(): the placeholder of an empty list, it has no key.
Placeholder == Fresh(NoKey)

\* ------------------------------------------------------ the render target
IndexOf(dom, h) == CHOOSE i \in 1..Len(dom) : dom[i] = h
InDom(dom, h) == \E i \in 1..Len(dom) : dom[i] = h
RemoveFrom(dom, h) == SelectSeq(dom, LAMBDA x : x # h)
\* parent.insert_before(h, ref): at the end of the parent when ref is empty.
InsertBefore(dom, h, ref) ==
    IF ref = Null \/ ~InDom(dom, ref)
    THEN Append(dom, h)
    ELSE LET i == IndexOf(dom, ref)
         IN SubSeq(dom, 1, i - 1) \o <<h>> \o SubSeq(dom, i, Len(dom))

\* ---------------------------------------------------- the child capability
\* The state a reconciler threads along: the ElementWriter's next_sibling, the
\* parent's children, the calls made so far, the lefts, and whether every
\* call on the render target referred to handles that are in it.
Writer(next_sibling, dom, lefts) ==
    [next_sibling |-> next_sibling, dom |-> dom, log |-> <<>>,
     lefts |-> lefts, ok |-> TRUE]

ApplyEntry(i, r, at, ret) ==
    [op |-> "apply", l |-> i, r |-> r, at |-> at, ret |-> ret, ptd |-> FALSE]
DetachEntry(r, ptd) ==
    [op |-> "detach", l |-> 0, r |-> r, at |-> Null, ret |-> Null, ptd |-> ptd]
MoveEntry(r, at) ==
    [op |-> "move", l |-> 0, r |-> r, at |-> at, ret |-> Null, ptd |-> FALSE]

\* VNode::apply(parent_scope, parent, next_sibling, ancestor) on lefts[i]:
\* with an ancestor the ancestor's handle is patched where it is, without one
\* a new handle is inserted before next_sibling; the NodeRef returned points
\* at the handle of the node.
NodeApply(w, i, ancestor) ==
    LET h == IF ancestor = Null THEN LHandle(i) ELSE ancestor
        dom == IF ancestor = Null
               THEN InsertBefore(w.dom, h, w.next_sibling)
               ELSE w.dom
        ok == IF ancestor = Null
              THEN w.next_sibling = Null \/ InDom(w.dom, w.next_sibling)
              ELSE InDom(w.dom, ancestor)
    IN [w EXCEPT !.dom = dom,
                 !.lefts[i].h = h,
                 !.ok = w.ok /\ ok,
                 !.log = Append(w.log, ApplyEntry(i, ancestor, w.next_sibling, h))]

\* VNode::detach(parent, parent_to_detach): the handle leaves the parent.
NodeDetach(w, r, ptd) ==
    [w EXCEPT !.dom = RemoveFrom(w.dom, r.h),
              !.ok = w.ok /\ InDom(w.dom, r.h),
              !.log = Append(w.log, DetachEntry(r.h, ptd))]

\* VNode::move_before(parent, next_sibling): the handle is put before
\* next_sibling in the same parent (before itself: it stays where it is).
NodeMoveBefore(w, r, ref) ==
    [w EXCEPT !.dom = IF ref = r.h THEN w.dom
                      ELSE InsertBefore(RemoveFrom(w.dom, r.h), r.h, ref),
              !.ok = w.ok /\ InDom(w.dom, r.h) /\ (ref = Null \/ InDom(w.dom, ref)),
              !.log = Append(w.log, MoveEntry(r.h, ref))]

\* A write that applies the node a second time.
WriteRetry(w, i, ancestor) ==
    LET a == NodeApply(NodeApply(w, i, ancestor), i, ancestor)
    IN [a EXCEPT !.next_sibling = a.log[Len(a.log)].ret]
\* ------------------------------------------------------------ ElementWriter
\* Write without the advance of next_sibling.
WriteNoAdvance(w, i, ancestor) == NodeApply(w, i, ancestor)

\* ElementWriter::write: apply the node and advance next_sibling to what the
\* node returned.
Write(w, i, ancestor) ==
    LET a == NodeApply(w, i, ancestor)
    IN [a EXCEPT !.next_sibling = a.log[Len(a.log)].ret]
\* Add without the advance of next_sibling.
AddNoAdvance(w, i) == NodeApply(w, i, Null)
\* ElementWriter::add
Add(w, i) == Write(w, i, Null)
\* Patch that loses the ancestor on the way to the node.
PatchDropsAncestor(w, i, r) == Write(w, i, Null)
\* ElementWriter::patch
Patch(w, i, r) == Write(w, i, r.h)


\* ------------------------------------------------------------ apply_unkeyed
\* "Add missing nodes": while diff > 0 the rightmost remaining left is added.
RECURSIVE UnkeyedAdd(_, _, _)
UnkeyedAdd(w, i, diff) ==
    IF diff > 0 THEN UnkeyedAdd(Add(w, i), i - 1, diff - 1) ELSE w

\* "Remove extra nodes": while diff < 0 the rightmost remaining right is
\* detached, with parent_to_detach = false.
RECURSIVE UnkeyedRemove(_, _, _, _)
UnkeyedRemove(w, rights, j, diff) ==
    IF diff < 0
    THEN UnkeyedRemove(NodeDetach(w, rights[j], FALSE), rights, j - 1, diff + 1)
    ELSE w

\* for (l, r) in lefts_it.zip(rights_it): both iterators run from the right,
\* the zip ends with the shorter one.
RECURSIVE UnkeyedPatch(_, _, _, _)
UnkeyedPatch(w, rights, i, j) ==
    IF i >= 1 /\ j >= 1
    THEN UnkeyedPatch(Patch(w, i, rights[j]), rights, i - 1, j - 1)
    ELSE w

\* apply_unkeyed without its "Remove extra nodes" loop.
apply_unkeyed_no_remove(w, rights) ==
    LET nl == Len(w.lefts)
        diff == nl - Len(rights)
    IN UnkeyedPatch(UnkeyedAdd(w, nl, diff), rights,
                    IF diff > 0 THEN nl - diff ELSE nl, Len(rights))

\* VList::apply_unkeyed(parent_scope, parent, next_sibling, lefts, rights)
apply_unkeyed(w, rights) ==
    LET nl == Len(w.lefts)
        nr == Len(rights)
        diff == nl - nr
        added == UnkeyedAdd(w, nl, diff)
        removed == UnkeyedRemove(added, rights, nr, diff)
        li == IF diff > 0 THEN nl - diff ELSE nl
        ri == IF diff < 0 THEN nr + diff ELSE nr
    IN UnkeyedPatch(removed, rights, li, ri)

\* -------------------------------------------------------------- apply_keyed
\* matching_len that stops one pair early.
matching_len_short(a, b) ==
    Cardinality({n \in 1..(Min(Len(a), Len(b)) - 1) : \A j \in 1..n : a[j] = b[j]})

\* matching_len: a.zip(b).take_while(|(a, b)| a == b).count()
matching_len(a, b) ==
    Cardinality({n \in 1..Min(Len(a), Len(b)) : \A j \in 1..n : a[j] = b[j]})

\* A reconciler that looks for no common head.
FromStartNone(lefts_keys, rights_keys) == matching_len(<<>>, rights_keys)
\* The first key mismatch from the front.
FromStart(lefts_keys, rights_keys) == matching_len(lefts_keys, rights_keys)

\* FromEnd over all the keys, those before from_start too.
FromEndWhole(lefts_keys, rights_keys, from_start) ==
    matching_len(Reverse(lefts_keys), Reverse(rights_keys))

\* FromEnd that compares the keys after from_start from the front.
FromEndNoReverse(lefts_keys, rights_keys, from_start) ==
    matching_len(SubSeq(lefts_keys, from_start + 1, Len(lefts_keys)),
                 SubSeq(rights_keys, from_start + 1, Len(rights_keys)))

\* The first key mismatch from the back, over the keys after from_start.
FromEnd(lefts_keys, rights_keys, from_start) ==
    matching_len(Reverse(SubSeq(lefts_keys, from_start + 1, Len(lefts_keys))),
                 Reverse(SubSeq(rights_keys, from_start + 1, Len(rights_keys))))

\* "Diff matching children at the end": lefts[lefts_to..] zipped with
\* rights.drain(rights_to..), from the right.
RECURSIVE KeyedTail(_, _, _, _, _)
KeyedTail(w, rights, lefts_to, rights_to, n) ==
    IF n >= 1
    THEN KeyedTail(Patch(w, lefts_to + n, rights[rights_to + n]),
                   rights, lefts_to, rights_to, n - 1)
    ELSE w

\* A map in which the entry that was inserted first stays.
RECURSIVE IndexRightsKeepFirst(_, _, _, _, _)
IndexRightsKeepFirst(rights_diff, rights, j, from_start, next_right_key) ==
    IF j > from_start
    THEN IndexRightsKeepFirst(
            rights_diff @@ (rights[j].key :> [r |-> rights[j], next |-> next_right_key]),
            rights, j - 1, from_start, rights[j].key)
    ELSE rights_diff
\* The map rights_diff: key -> (node, key of its right neighbour in the
\* middle of rights).  The middle of rights is walked from the right and
\* HashMap::insert replaces the entry of a key that is already there.
RECURSIVE IndexRights(_, _, _, _, _)
IndexRights(rights_diff, rights, j, from_start, next_right_key) ==
    IF j > from_start
    THEN IndexRights((rights[j].key :> [r |-> rights[j], next |-> next_right_key])
                        @@ rights_diff,
                     rights, j - 1, from_start, rights[j].key)
    ELSE rights_diff

\* SameNext that takes every right neighbour for changed.
SameNextNever(next_r_key, next_left_key) == FALSE
\* SameNext that takes every right neighbour for unchanged.
SameNextAlways(next_r_key, next_left_key) == TRUE

\* "If the next sibling was already the same, we don't need to move the node"
SameNext(next_r_key, next_left_key) ==
    next_r_key # NoKey /\ next_left_key # NoKey /\ next_r_key = next_left_key

\* "Diff mismatched children in the middle": the middle of lefts is walked
\* from the right; a left whose key is in rights_diff takes the entry out,
\* is moved before next_sibling unless its right neighbour is unchanged, and
\* is patched; any other left is added.  Yields the writer and what is left
\* of rights_diff.
RECURSIVE KeyedMiddle(_, _, _, _, _)
KeyedMiddle(w, rights_diff, i, from_start, next_left_key) ==
    IF i > from_start
    THEN LET l_key == w.lefts[i].key
         IN IF l_key \in DOMAIN rights_diff
            THEN LET e == rights_diff[l_key]
                     rest == [k \in (DOMAIN rights_diff) \ {l_key} |-> rights_diff[k]]
                     moved == IF SameNext(e.next, next_left_key)
                              THEN w
                              ELSE NodeMoveBefore(w, e.r, w.next_sibling)
                 IN KeyedMiddle(Patch(moved, i, e.r), rest, i - 1, from_start, l_key)
            ELSE KeyedMiddle(Add(w, i), rights_diff, i - 1, from_start, l_key)
    ELSE [w |-> w, rights_diff |-> rights_diff]

\* KeyedRemove that leaves the entries of rights_diff alone.
KeyedRemoveNone(w, rights_diff, ord, n) == w

\* "Remove any extra rights": rights_diff.drain() yields the entries in the
\* order of the hash table (ord), each is detached with parent_to_detach =
\* false.
RECURSIVE KeyedRemove(_, _, _, _)
KeyedRemove(w, rights_diff, ord, n) ==
    IF n <= Len(ord)
    THEN KeyedRemove(IF ord[n] \in DOMAIN rights_diff
                     THEN NodeDetach(w, rights_diff[ord[n]].r, FALSE)
                     ELSE w,
                     rights_diff, ord, n + 1)
    ELSE w

\* A head pass that moves every node it patches.
RECURSIVE KeyedHeadMoving(_, _, _)
KeyedHeadMoving(w, rights, n) ==
    IF n >= 1
    THEN KeyedHeadMoving(Patch(NodeMoveBefore(w, rights[n], w.next_sibling),
                               n, rights[n]),
                         rights, n - 1)
    ELSE w
\* "Diff matching children at the start": lefts[..from_start] zipped with
\* what is left of rights, from the right.
RECURSIVE KeyedHead(_, _, _)
KeyedHead(w, rights, n) ==
    IF n >= 1 THEN KeyedHead(Patch(w, n, rights[n]), rights, n - 1) ELSE w

\* Zones of a reconciler that always hands over to apply_unkeyed.
ZonesAlwaysFast(lefts, rights) ==
    LET lefts_keys == KeysOf(lefts)
        rights_keys == KeysOf(rights)
        from_start == FromStart(lefts_keys, rights_keys)
        from_end == FromEnd(lefts_keys, rights_keys, from_start)
    IN [from_start |-> from_start,
        from_end |-> from_end,
        lefts_to |-> Len(lefts_keys) - from_end,
        rights_to |-> Len(rights_keys) - from_end,
        fast |-> TRUE]
\* Zones of a reconciler that never hands over to apply_unkeyed.
ZonesNeverFast(lefts, rights) ==
    LET lefts_keys == KeysOf(lefts)
        rights_keys == KeysOf(rights)
        from_start == FromStart(lefts_keys, rights_keys)
        from_end == FromEnd(lefts_keys, rights_keys, from_start)
    IN [from_start |-> from_start,
        from_end |-> from_end,
        lefts_to |-> Len(lefts_keys) - from_end,
        rights_to |-> Len(rights_keys) - from_end,
        fast |-> FALSE]
\* The zones of apply_keyed: the lengths of the common head and tail and the
\* ends of the two middles.
Zones(lefts, rights) ==
    LET lefts_keys == KeysOf(lefts)
        rights_keys == KeysOf(rights)
        from_start == FromStart(lefts_keys, rights_keys)
        from_end == FromEnd(lefts_keys, rights_keys, from_start)
    IN [from_start |-> from_start,
        from_end |-> from_end,
        lefts_to |-> Len(lefts_keys) - from_end,
        rights_to |-> Len(rights_keys) - from_end,
        fast |-> from_start = Min(Len(lefts), Len(rights))]

\* The ranges lefts[from_start..lefts_to] and rights.drain(from_start..),
\* taken when rights has rights_to elements left, are ranges: otherwise the
\* call panics.
InRange(z) == z.from_start <= z.lefts_to /\ z.from_start <= z.rights_to

\* The writer and rights_diff of apply_keyed when the middle has been diffed
\* (not on the path that hands over to apply_unkeyed).
KeyedDiffed(w, rights) ==
    LET z == Zones(w.lefts, rights)
        tail == KeyedTail(w, rights, z.lefts_to, z.rights_to, z.from_end)
        rights_diff == IndexRights(<<>>, rights, z.rights_to, z.from_start, NoKey)
    IN KeyedMiddle(tail, rights_diff, z.lefts_to, z.from_start, NoKey)

\* The keys rights_diff.drain() enumerates.
Drained(lefts, rights) ==
    IF Zones(lefts, rights).fast \/ ~InRange(Zones(lefts, rights))
    THEN {}
    ELSE DOMAIN KeyedDiffed(Writer(Null, <<>>, lefts), rights).rights_diff

\* apply_keyed that patches the head before it removes the extra rights.
apply_keyed_head_first(w, rights, ord) ==
    LET z == Zones(w.lefts, rights)
    IN IF ~AllKeyed(w.lefts) \/ ~AllKeyed(rights)
       THEN [w EXCEPT !.ok = FALSE]
       ELSE IF z.fast
       THEN apply_unkeyed(w, rights)
       ELSE IF ~InRange(z)
       THEN [w EXCEPT !.ok = FALSE]
       ELSE LET m == KeyedDiffed(w, rights)
                head == KeyedHead(m.w, rights, z.from_start)
            IN KeyedRemove(head, m.rights_diff, ord, 1)
\* VList::apply_keyed(parent_scope, parent, next_sibling, lefts, rights); ord
\* is the order in which the hash table enumerates the entries left in it.
\* map_keys! fails ("unkeyed child in fully keyed list") on a child without
\* a key, before anything is done; a range that is none fails when the tail
\* has been patched.
apply_keyed(w, rights, ord) ==
    LET z == Zones(w.lefts, rights)
    IN IF ~AllKeyed(w.lefts) \/ ~AllKeyed(rights)
       THEN [w EXCEPT !.ok = FALSE]
       ELSE IF z.fast
       THEN apply_unkeyed(w, rights)
       ELSE IF ~InRange(z)
       THEN [KeyedTail(w, rights, z.lefts_to, z.rights_to, z.from_end)
                EXCEPT !.ok = FALSE]
       ELSE LET m == KeyedDiffed(w, rights)
                removed == KeyedRemove(m.w, m.rights_diff, ord, 1)
            IN KeyedHead(removed, rights, z.from_start)

\* -------------------------------------------------------------------- VList
\* VList::new
new == [children |-> <<>>, fully_keyed |-> TRUE]

\* with_children that takes every list for fully keyed.
with_children_keyed(cs) == [children |-> cs, fully_keyed |-> TRUE]
\* VList::with_children(children, key); the key of the list itself plays no
\* part in what follows and is left out.
with_children(cs) == [children |-> cs, fully_keyed |-> AllKeyed(cs)]

\* add_child whose flag follows the child alone.
add_child_last_key(self, child) ==
    [children |-> Append(self.children, child), fully_keyed |-> HasKey(child)]
\* VList::add_child
add_child(self, child) ==
    [children |-> Append(self.children, child),
     fully_keyed |-> IF self.fully_keyed /\ ~HasKey(child)
                     THEN FALSE
                     ELSE self.fully_keyed]

\* VList::add_children: add_child on every child, in order.
RECURSIVE add_children(_, _)
add_children(self, cs) ==
    IF cs = <<>> THEN self ELSE add_children(add_child(self, Head(cs)), Tail(cs))

\* A dereference that leaves the flag as it is.
deref_mut_keeps_flag(self) == self
\* DerefMut::deref_mut: "Defensively assume they will" change keys.
deref_mut(self) == [self EXCEPT !.fully_keyed = FALSE]

\* A recheck that sets the flag without a look at the children.
recheck_sets_flag(self) == [self EXCEPT !.fully_keyed = TRUE]
\* VList::recheck_fully_keyed
recheck_fully_keyed(self) == [self EXCEPT !.fully_keyed = AllKeyed(self.children)]

\* A detach that drains the children from the right.
RECURSIVE DetachChildrenFromRight(_, _, _)
DetachChildrenFromRight(w, cs, parent_to_detach) ==
    IF cs = <<>> THEN w
    ELSE DetachChildrenFromRight(NodeDetach(w, cs[Len(cs)], parent_to_detach),
                                 SubSeq(cs, 1, Len(cs) - 1), parent_to_detach)
\* VList::detach: every child is drained from the list, from the left, and
\* detached with the flag the list was given.
RECURSIVE DetachChildren(_, _, _)
DetachChildren(w, cs, parent_to_detach) ==
    IF cs = <<>> THEN w
    ELSE DetachChildren(NodeDetach(w, Head(cs), parent_to_detach), Tail(cs),
                        parent_to_detach)
detach(self, parent, parent_to_detach) ==
    [self |-> [self EXCEPT !.children = <<>>],
     w |-> DetachChildren(Writer(Null, parent, <<>>), self.children, parent_to_detach)]

\* A placeholder rule whose placeholder has a key.
WithKeyedPlaceholder(self) ==
    IF self.children = <<>> THEN add_child(self, Fresh(NumKeys)) ELSE self
\* An apply without the placeholder rule.
WithPlaceholderNever(self) == self
\* VNode::shift(previous_parent, next_parent, next_sibling): the handle of
\* the node leaves previous_parent and is put into next_parent before
\* next_sibling.
ShiftEntry(r, at) ==
    [op |-> "shift", l |-> 0, r |-> r, at |-> at, ret |-> Null, ptd |-> FALSE]
NodeShift(s, node, next_sibling) ==
    [s EXCEPT !.dom = RemoveFrom(s.dom, node.h),
              !.next = InsertBefore(s.next, node.h, next_sibling),
              !.ok = /\ s.ok
                     /\ InDom(s.dom, node.h)
                     /\ (next_sibling = Null \/ InDom(s.next, next_sibling)),
              !.log = Append(s.log, ShiftEntry(node.h, next_sibling))]

\* A shift that hands the caller's next_sibling to every child.
RECURSIVE ShiftChildrenSameRef(_, _, _)
ShiftChildrenSameRef(s, cs, n) ==
    IF n >= 1
    THEN ShiftChildrenSameRef(NodeShift(s, cs[n], s.last_node_ref), cs, n - 1)
    ELSE s

\* for node in self.children.iter().rev(): the node is shifted before
\* last_node_ref, which then points at the first node of the node.
RECURSIVE ShiftChildren(_, _, _)
ShiftChildren(s, cs, n) ==
    IF n >= 1
    THEN ShiftChildren([NodeShift(s, cs[n], s.last_node_ref)
                           EXCEPT !.last_node_ref = cs[n].h],
                       cs, n - 1)
    ELSE s

\* VList::shift(previous_parent, next_parent, next_sibling)
shift(self, previous_parent, next_parent_, next_sibling) ==
    ShiftChildren([dom |-> previous_parent, next |-> next_parent_, log |-> <<>>,
                   ok |-> TRUE, last_node_ref |-> next_sibling],
                  self.children, Len(self.children))

\* The placeholder rule of VList::apply: an empty list gets an empty text.
WithPlaceholder(self) ==
    IF self.children = <<>> THEN add_child(self, Placeholder) ELSE self

\* Rights that are taken from a VList ancestor only.
RightsOfListOnly(anc) ==
    IF anc.kind = "vlist"
    THEN [rights |-> anc.children, fully_keyed |-> anc.fully_keyed]
    ELSE [rights |-> <<>>, fully_keyed |-> TRUE]
\* The rights of VList::apply and whether they are fully keyed: the children
\* and the flag of a VList ancestor, any other ancestor alone with its
\* has_key, nothing and true without an ancestor.
RightsOf(anc) ==
    CASE anc.kind = "vlist" -> [rights |-> anc.children, fully_keyed |-> anc.fully_keyed]
      [] anc.kind = "vnode" -> [rights |-> anc.children,
                                fully_keyed |-> HasKey(anc.children[1])]
      [] OTHER -> [rights |-> <<>>, fully_keyed |-> TRUE]

\* UseKeyed that does not look at the rights.
UseKeyedSelfOnly(self, anc) == self.fully_keyed

\* Which reconciler VList::apply runs.
UseKeyed(self, anc) == self.fully_keyed /\ RightsOf(anc).fully_keyed

\* VList::apply as a VDiff: the list after the placeholder rule, the
\* reconciler that ran, and the writer it ended with (its next_sibling is the
\* NodeRef returned).
apply(self, anc, next_sibling, parent, ord) ==
    LET s == WithPlaceholder(self)
        rs == RightsOf(anc)
        w == Writer(next_sibling, parent, s.children)
        keyed == UseKeyed(s, anc)
    IN [self |-> s,
        keyed |-> keyed,
        w |-> IF keyed
              THEN apply_keyed(w, rs.rights, ord)
              ELSE apply_unkeyed(w, rs.rights)]

\* The orders rights_diff.drain() can take in this call of VList::apply.
DrainOrders(self, anc) ==
    LET s == WithPlaceholder(self)
        rs == RightsOf(anc)
    IN IF UseKeyed(s, anc) /\ AllKeyed(s.children) /\ AllKeyed(rs.rights)
       THEN Orders(Drained(s.children, rs.rights))
       ELSE {<<>>}

\* ------------------------------------------------------------------- inputs
\* Keys are compared for equality only, so the previously rendered lists are
\* taken up to a renaming of the keys: the i-th child has key i.
KeyedRights(n) == [i \in 1..n |-> Rendered(i, i)]
UnkeyedRights(n) == [i \in 1..n |-> Rendered(NoKey, i)]

\* Key lists in which a key occurs more than once; on the side of the rights
\* again up to a renaming: a key is one more than the keys before it at most.
DupLists ==
    {s \in UNION {[1..n -> 1..MaxDup] : n \in 2..MaxDup} : ~Injective(s)}
DupRights ==
    {s \in DupLists : \A i \in 1..Len(s) : \A k \in 1..(s[i] - 1) :
                          \E j \in 1..(i - 1) : s[j] = k}
\* Lists of children with and without keys, as add_child can build them.
MixedLists == UNION {[1..n -> Keys \cup {NoKey}] : n \in 0..MaxAdd}

\* What VList::apply can be given as ancestor: nothing, a rendered VList
\* (never empty: an empty list was rendered as its placeholder, which leaves
\* fully_keyed false; fully_keyed is also false after a mutable dereference
\* that was not followed by recheck_fully_keyed), or a single node that is
\* not a VList.
NoAncestor == [kind |-> "none", children |-> <<>>, fully_keyed |-> TRUE]
Ancestors ==
    {NoAncestor}
    \cup {[kind |-> "vlist", children |-> KeyedRights(n), fully_keyed |-> TRUE] :
            n \in 1..MaxLen}
    \cup {[kind |-> "vlist", children |-> UnkeyedRights(n), fully_keyed |-> FALSE] :
            n \in 1..MaxLen}
    \cup {[kind |-> "vnode", children |-> KeyedRights(1), fully_keyed |-> TRUE],
          [kind |-> "vnode", children |-> UnkeyedRights(1), fully_keyed |-> FALSE]}
    \cup {[kind |-> "vlist", children |-> KeyedRights(n), fully_keyed |-> FALSE] :
            n \in 1..MaxAdd}
    \cup {[kind |-> "vlist", children |-> [i \in 1..Len(s) |-> Rendered(s[i], i)],
           fully_keyed |-> TRUE] : s \in DupRights}

\* The child lists handed to with_children: every list of distinct keys,
\* every list without keys, short lists of both kinds of children, and lists
\* with a key that occurs more than once.
KeyLists == {s \in UNION {[1..n -> Keys] : n \in 0..MaxLen} : Injective(s)}
NewLists ==
    {[i \in 1..Len(s) |-> Fresh(s[i])] : s \in KeyLists}
    \cup {[i \in 1..n |-> Fresh(NoKey)] : n \in 1..MaxLen}
    \cup {[i \in 1..Len(s) |-> Fresh(s[i])] : s \in MixedLists \cup DupLists}

\* ------------------------------------------------------ server-side render
\* A child's own render_to_string writes the next piece of its fragment to
\* the buffer it was given.
NodeRenderToString(buf, frag) == Append(buf, frag[Len(buf) + 1])

\* futures::future::join_all resolves to the outputs in the order of the
\* futures it was given, whatever the order they completed in.
join_all_unordered(buf, order) == [k \in 1..Len(order) |-> buf[order[k]]]
join_all(buf, order) == buf

\* for fragment in ... { w.push_str(&fragment) }
RECURSIVE PushStr(_, _)
PushStr(w, fragments) ==
    IF fragments = <<>> THEN w
    ELSE PushStr(w \o Head(fragments), Tail(fragments))

\* No render_to_string is running.
SsrIdle == [pc |-> "idle", frag |-> <<>>, buf |-> <<>>, order |-> <<>>, w |-> <<>>]
\* The fragment the i-th child writes, in n pieces.
Fragment(i, n) == [j \in 1..n |-> <<i, j>>]
\* What the sink holds before the call.
Sinks == {<<>>, << <<0, 0>> >>}

\* -------------------------------------------------------------------- state
VARIABLES
    pc,            \* "start", "build" (a list under construction), "borrowed"
                   \* (under construction, its Vec handed out by deref_mut),
                   \* "applied", "detached"; "ssr" for a list rendered on
                   \* the server
    children,      \* VList.children
    fully_keyed,   \* VList.fully_keyed
    ancestor,      \* the ancestor VList::apply is given
    next_sibling,  \* the next_sibling VList::apply is given
    dom,           \* the children of parent, in order
    log,           \* the calls the last apply or detach made on the nodes
    first,         \* the NodeRef VList::apply returned
    path,          \* the reconciler VList::apply ran
    ok,            \* no call failed
    given,         \* the list as VList::apply received it
    ssr,           \* render_to_string: the children's fragments and buffers,
                   \* the order the children completed in, the sink w
    next_parent    \* the children of the parent VList::shift moved the list to

vars == <<pc, children, fully_keyed, ancestor, next_sibling, dom, log, first, path,
          ok, given, ssr, next_parent>>

Self == [children |-> children, fully_keyed |-> fully_keyed]
\* The list is under construction; a call of a method ends a borrow.
Building == pc \in {"build", "borrowed"}

\* The rights sit in order before next_sibling, after an earlier sibling.
DomOf(anc, sibling) ==
    <<Prev>> \o HandlesOf(anc.children)
             \o (IF sibling = Null THEN <<>> ELSE <<sibling>>)

Init ==
    /\ pc = "start"
    /\ children = <<>>
    /\ fully_keyed = TRUE
    /\ ancestor \in Ancestors
    /\ next_sibling \in {Sib, Null}
    /\ dom = DomOf(ancestor, next_sibling)
    /\ log = <<>>
    /\ first = Null
    /\ path = "none"
    /\ ok = TRUE
    /\ given = new
    /\ ssr = SsrIdle
    /\ next_parent = <<>>

New ==
    /\ pc = "start"
    /\ pc' = "build"
    /\ children' = new.children
    /\ fully_keyed' = new.fully_keyed
    /\ UNCHANGED <<ancestor, next_sibling, dom, log, first, path, ok, given, ssr, next_parent>>

WithChildren ==
    /\ pc = "start"
    /\ \E cs \in NewLists :
          /\ children' = with_children(cs).children
          /\ fully_keyed' = with_children(cs).fully_keyed
    /\ pc' = "build"
    /\ UNCHANGED <<ancestor, next_sibling, dom, log, first, path, ok, given, ssr, next_parent>>

AddChild ==
    /\ Building
    /\ Len(children) < MaxAdd
    /\ \E k \in Keys \cup {NoKey} :
          /\ children' = add_child(Self, Fresh(k)).children
          /\ fully_keyed' = add_child(Self, Fresh(k)).fully_keyed
    /\ pc' = "build"
    /\ UNCHANGED <<ancestor, next_sibling, dom, log, first, path, ok, given, ssr, next_parent>>

AddChildren ==
    /\ Building
    /\ Len(children) <= MaxAdd
    /\ \E cs \in MixedLists :
          /\ Len(children) + Len(cs) <= MaxAdd
          /\ \E a \in {add_children(Self, [i \in 1..Len(cs) |-> Fresh(cs[i])])} :
                /\ children' = a.children
                /\ fully_keyed' = a.fully_keyed
    /\ pc' = "build"
    /\ UNCHANGED <<ancestor, next_sibling, dom, log, first, path, ok, given, ssr, next_parent>>

\* A mutable dereference of the list: the method itself.
DerefMut ==
    /\ Building
    /\ Len(children) <= MaxAdd
    /\ children' = deref_mut(Self).children
    /\ fully_keyed' = deref_mut(Self).fully_keyed
    /\ pc' = "borrowed"
    /\ UNCHANGED <<ancestor, next_sibling, dom, log, first, path, ok, given, ssr, next_parent>>

\* What the caller does with the Vec it borrowed: a push or a pop.
Mutate ==
    /\ pc = "borrowed"
    /\ \/ /\ Len(children) < MaxAdd
          /\ \E k \in Keys \cup {NoKey} : children' = Append(children, Fresh(k))
       \/ /\ children # <<>>
          /\ children' = SubSeq(children, 1, Len(children) - 1)
    /\ UNCHANGED <<pc, fully_keyed, ancestor, next_sibling, dom, log, first, path,
                   ok, given, ssr, next_parent>>

RecheckFullyKeyed ==
    /\ Building
    /\ children' = recheck_fully_keyed(Self).children
    /\ fully_keyed' = recheck_fully_keyed(Self).fully_keyed
    /\ pc' = "build"
    /\ UNCHANGED <<ancestor, next_sibling, dom, log, first, path, ok, given, ssr, next_parent>>

Apply ==
    /\ Building
    /\ \E ord \in DrainOrders(Self, ancestor) :
          \E a \in {apply(Self, ancestor, next_sibling, dom, ord)} :
             /\ children' = a.w.lefts
             /\ fully_keyed' = a.self.fully_keyed
             /\ dom' = a.w.dom
             /\ log' = a.w.log
             /\ first' = a.w.next_sibling
             /\ path' = IF a.keyed THEN "keyed" ELSE "unkeyed"
             /\ ok' = a.w.ok
    /\ pc' = "applied"
    /\ given' = Self
    /\ UNCHANGED <<ancestor, next_sibling, ssr, next_parent>>

\* VDiff::detach of the rendered list; first, path and given speak of the
\* last call, which returns nothing.
Detach ==
    /\ pc = "applied"
    /\ ok
    /\ \E parent_to_detach \in BOOLEAN :
          \E d \in {detach(Self, dom, parent_to_detach)} :
             /\ children' = d.self.children
             /\ fully_keyed' = d.self.fully_keyed
             /\ dom' = d.w.dom
             /\ log' = d.w.log
             /\ ok' = d.w.ok
    /\ pc' = "detached"
    /\ first' = Null
    /\ path' = "none"
    /\ given' = new
    /\ UNCHANGED <<ancestor, next_sibling, ssr, next_parent>>

\* A child and a later sibling in the parent a list is shifted to.
Prev2 == <<"prev2", 0>>
Sib2 == <<"sib2", 0>>
NextParentOf(sibling) ==
    <<Prev2>> \o (IF sibling = Null THEN <<>> ELSE <<sibling>>)

\* VDiff::shift of the rendered list to another parent, before a child of
\* that parent or to its end; first, path and given speak of the last call,
\* which returns nothing.
Shift ==
    /\ pc = "applied"
    /\ ok
    /\ Len(children) <= MaxShift
    /\ \E sibling \in {Sib2, Null} :
          \E s \in {shift(Self, dom, NextParentOf(sibling), sibling)} :
             /\ dom' = s.dom
             /\ next_parent' = s.next
             /\ log' = s.log
             /\ ok' = s.ok
    /\ pc' = "shifted"
    /\ first' = Null
    /\ path' = "none"
    /\ given' = new
    /\ UNCHANGED <<children, fully_keyed, ancestor, next_sibling, ssr>>

Next ==
    \/ New \/ WithChildren \/ AddChild \/ AddChildren
    \/ DerefMut \/ Mutate \/ RecheckFullyKeyed
    \/ Apply \/ Detach \/ Shift

Spec == Init /\ [][Next]_vars

\* --------------------------------------------- server-side render, as steps
\* A list of up to MaxSsr children, each with the fragment it will write,
\* and a sink.
SsrInit ==
    /\ pc = "ssr"
    /\ \E n \in 0..MaxSsr :
          /\ children \in {[i \in 1..n |-> Fresh(k)] : k \in {NoKey, 1}}
          /\ \E lens \in [1..n -> 0..MaxFrag] :
                \E w \in Sinks :
                   ssr = [SsrIdle EXCEPT !.frag = [i \in 1..n |-> Fragment(i, lens[i])],
                                         !.w = w]
    /\ fully_keyed = AllKeyed(children)
    /\ ancestor = NoAncestor
    /\ next_sibling = Null
    /\ dom = <<>>
    /\ log = <<>>
    /\ first = Null
    /\ path = "none"
    /\ ok = TRUE
    /\ given = new
    /\ next_parent = <<>>

\* render_to_string is called: one future per child, each with a buffer of
\* its own, all handed to join_all.
RenderToString ==
    /\ pc = "ssr"
    /\ ssr.pc = "idle"
    /\ ssr' = [ssr EXCEPT !.pc = "joining",
                          !.buf = [i \in 1..Len(children) |-> <<>>]]
    /\ UNCHANGED <<pc, children, fully_keyed, ancestor, next_sibling, dom, log,
                   first, path, ok, given, next_parent>>

\* The future of one child runs up to its next await: the child writes a
\* piece to its buffer, or has written them all and the future completes.
ChildRender ==
    /\ pc = "ssr"
    /\ ssr.pc = "joining"
    /\ \E i \in 1..Len(children) :
          /\ i \notin Range(ssr.order)
          /\ ssr' = IF Len(ssr.buf[i]) < Len(ssr.frag[i])
                    THEN [ssr EXCEPT !.buf[i] = NodeRenderToString(@, ssr.frag[i])]
                    ELSE [ssr EXCEPT !.order = Append(@, i)]
    /\ UNCHANGED <<pc, children, fully_keyed, ancestor, next_sibling, dom, log,
                   first, path, ok, given, next_parent>>

\* Every future has completed: join_all resolves and the loop pushes the
\* fragments to the sink.
JoinAll ==
    /\ pc = "ssr"
    /\ ssr.pc = "joining"
    /\ Len(ssr.order) = Len(children)
    /\ ssr' = [ssr EXCEPT !.pc = "done",
                          !.w = PushStr(@, join_all(ssr.buf, ssr.order))]
    /\ UNCHANGED <<pc, children, fully_keyed, ancestor, next_sibling, dom, log,
                   first, path, ok, given, next_parent>>

SsrNext == RenderToString \/ ChildRender \/ JoinAll

SpecSsr == SsrInit /\ [][SsrNext]_vars

\* ------------------------------------------------- what the claims speak of
Applied == pc = "applied"
\* The previously rendered nodes the reconciler was given.
Rights == RightsOf(ancestor).rights
RightsKeys == KeysOf(Rights)
LeftsKeys == KeysOf(children)
UniqueKeyed(ns) == AllKeyed(ns) /\ Injective(KeysOf(ns))
\* The keyed reconciler has run on two fully keyed sides with unique keys.
KeyedUnique ==
    Applied /\ path = "keyed" /\ UniqueKeyed(children) /\ UniqueKeyed(Rights)
\* The unkeyed reconciler has run.
Unkeyed == Applied /\ path = "unkeyed"

Applies == {n \in 1..Len(log) : log[n].op = "apply"}
Detaches == {n \in 1..Len(log) : log[n].op = "detach"}
Moves == {n \in 1..Len(log) : log[n].op = "move"}
\* The calls of apply on the i-th new node.
AppliesOf(i) == {n \in Applies : log[n].l = i}
\* The i-th new node was applied once, with the handle r as previous.
PatchedFrom(i, r) ==
    /\ Cardinality(AppliesOf(i)) = 1
    /\ \A n \in AppliesOf(i) : log[n].r = r
    /\ children[i].h = r
\* The i-th new node was applied once, with previous = None.
Created(i) ==
    /\ Cardinality(AppliesOf(i)) = 1
    /\ \A n \in AppliesOf(i) : log[n].r = Null
    /\ children[i].h = LHandle(i)
\* How often the previous node with handle r was passed to apply, detached.
TimesPatched(r) == Cardinality({n \in Applies : log[n].r = r})
TimesDetached(r) == Cardinality({n \in Detaches : log[n].r = r})
\* The parent holds the new nodes, in their order, where the rights were.
InOrder ==
    dom = <<Prev>> \o HandlesOf(children)
             \o (IF next_sibling = Null THEN <<>> ELSE <<next_sibling>>)

\* C1: after the keyed reconciler has run on two fully keyed sides with
\* unique keys, the parent holds the new nodes in the order of the new list.
C1_KeyedOrder == KeyedUnique => InOrder

\* C2: on two fully keyed sides with unique keys, a new node whose key is
\* among the old keys is applied once with the old node of that key as
\* previous and takes its handle, a new node with any other key is applied
\* once with previous = None, and an old node whose key is not among the new
\* keys is detached and is not in the parent afterwards.
C2_Identity ==
    KeyedUnique =>
        /\ \A i \in 1..Len(children) :
              IF \E j \in 1..Len(Rights) : Rights[j].key = children[i].key
              THEN \A j \in 1..Len(Rights) :
                      Rights[j].key = children[i].key => PatchedFrom(i, Rights[j].h)
              ELSE Created(i)
        /\ \A j \in 1..Len(Rights) :
              Rights[j].key \notin Range(LeftsKeys) =>
                  /\ TimesDetached(Rights[j].h) = 1
                  /\ ~InDom(dom, Rights[j].h)
\* Old keys 1,2,3 against new keys 1,4,5,3: two kept, two new, one gone.
C2_Witness ==
    /\ KeyedUnique
    /\ RightsKeys = <<1, 2, 3>>
    /\ LeftsKeys = <<1, 4, 5, 3>>
    /\ children[1].h = RHandle(1)
    /\ children[2].h = LHandle(2)
    /\ TimesDetached(RHandle(2)) = 1

\* C3: whichever reconciler ran (the keyed one on unique keys), every old
\* node was either passed as previous to exactly one apply or detached
\* exactly once, never both and never neither.
C3_Ownership ==
    (Unkeyed \/ KeyedUnique) =>
        \A j \in 1..Len(Rights) :
            TimesPatched(Rights[j].h) + TimesDetached(Rights[j].h) = 1
\* A keyed pass that kept one old node and detached two.
C3_Witness ==
    /\ KeyedUnique
    /\ Len(Rights) = 3
    /\ TimesPatched(RHandle(2)) = 1
    /\ TimesDetached(RHandle(1)) = 1
    /\ TimesDetached(RHandle(3)) = 1

\* C4: the unkeyed reconciler on sides of equal length leaves the parent in
\* the order of the new list, applies every news[i] once with olds[i] as
\* previous, creates nothing and detaches nothing.
C4_UnkeyedEqual ==
    (Unkeyed /\ Len(children) = Len(Rights)) =>
        /\ InOrder
        /\ \A i \in 1..Len(children) : PatchedFrom(i, Rights[i].h)
        /\ Detaches = {}
        /\ Cardinality(Applies) = Len(children)
\* Three children without keys against three rendered ones without keys.
C4_Witness ==
    /\ Unkeyed
    /\ Len(children) = 3
    /\ Len(Rights) = 3
    /\ ~\E i \in 1..3 : HasKey(children[i]) \/ HasKey(Rights[i])
    /\ children[3].h = RHandle(3)

\* C5: the unkeyed reconciler on a longer new side patches news[i] from
\* olds[i] for every i up to len(olds) and creates every later node, giving
\* the patched olds followed by the new ones, len(news) handles in all; on a
\* longer old side it detaches exactly the len(olds) - len(news) rightmost
\* old nodes and patches news[i] from olds[i] for every i up to len(news).
C5_UnkeyedTail ==
    Unkeyed =>
        /\ \A i \in 1..Min(Len(children), Len(Rights)) : PatchedFrom(i, Rights[i].h)
        /\ \A i \in (Len(Rights) + 1)..Len(children) : Created(i)
        /\ \A j \in 1..Len(Rights) :
              TimesDetached(Rights[j].h) = (IF j > Len(children) THEN 1 ELSE 0)
        /\ Cardinality(Detaches) =
              (IF Len(Rights) > Len(children) THEN Len(Rights) - Len(children) ELSE 0)
        /\ InOrder
        /\ Len(dom) = Len(children) + 1 + (IF next_sibling = Null THEN 0 ELSE 1)
\* Two rendered children without keys, four new ones: two patched, two new.
C5_Witness ==
    /\ Unkeyed
    /\ Len(Rights) = 2
    /\ Len(children) = 4
    /\ ~\E i \in 1..4 : HasKey(children[i])
    /\ HandlesOf(children) = <<RHandle(1), RHandle(2), LHandle(3), LHandle(4)>>

\* s without its p-th element.
Without(s, p) == SubSeq(s, 1, p - 1) \o SubSeq(s, p + 1, Len(s))
\* a is b with one element put in at some position.
OneMore(a, b) ==
    Len(a) = Len(b) + 1 /\ \E p \in 1..Len(a) : Without(a, p) = b

\* C6: a fully keyed list reconciled against a list of the same keys in the
\* same order: no move_before, no detach, nothing created, every node
\* patched from the old node at its position, which has its key.
C6_NoOp ==
    (KeyedUnique /\ LeftsKeys = RightsKeys) =>
        /\ Moves = {}
        /\ Detaches = {}
        /\ \A i \in 1..Len(children) :
              Rights[i].key = children[i].key /\ PatchedFrom(i, Rights[i].h)
        /\ Cardinality(Applies) = Len(children)
C6_Witness ==
    /\ KeyedUnique
    /\ LeftsKeys = <<1, 2, 3, 4>>
    /\ RightsKeys = <<1, 2, 3, 4>>
    /\ HandlesOf(children) = HandlesOf(Rights)

\* C7: on fully keyed sides with unique keys, when the new keys are the old
\* keys with one key taken out, or with one new key put in, at any position,
\* move_before is not called.
C7_SingleChange ==
    (KeyedUnique /\ (OneMore(RightsKeys, LeftsKeys) \/ OneMore(LeftsKeys, RightsKeys))) =>
        Moves = {}
\* A key put in the interior: old keys 1,2,3,4, new keys 1,2,5,3,4.
C7_Witness ==
    /\ KeyedUnique
    /\ RightsKeys = <<1, 2, 3, 4>>
    /\ LeftsKeys = <<1, 2, 5, 3, 4>>
    /\ Cardinality(Applies) = 5

\* The reversal of the spec: old keys 1..5 against new keys 5,4,3,2,1.
Reversal ==
    Applied /\ path = "keyed" /\ RightsKeys = <<1, 2, 3, 4, 5>>
            /\ LeftsKeys = <<5, 4, 3, 2, 1>>

\* C8: the reversal leaves the parent in the order 5,4,3,2,1, detaches
\* nothing and creates nothing: each of the five new nodes is applied with
\* the old node of its key as previous.
C8_ReversalOutcome ==
    Reversal =>
        /\ InOrder
        /\ HandlesOf(children) =
              <<RHandle(5), RHandle(4), RHandle(3), RHandle(2), RHandle(1)>>
        /\ Detaches = {}
        /\ \A i \in 1..5 : PatchedFrom(i, RHandle(6 - i))
C8_Witness == Reversal /\ Cardinality(Applies) = 5 /\ ok

\* C9, as the spec has it: the reversal calls move_before between 1 and 4
\* times.
C9_ReversalMoves1to4 == Reversal => Cardinality(Moves) \in 1..4
\* C9, amended: the reversal calls move_before between 1 and 5 times.
C9_ReversalMoves == Reversal => Cardinality(Moves) \in 1..5
C9_Witness == Reversal /\ Moves # {} /\ log[1].op = "move"

\* An empty list was rendered (as its placeholder, so without fully_keyed),
\* and a list of three keyed children has been applied on it.
EmptyToThree ==
    /\ Applied
    /\ ancestor = [kind |-> "vlist", children |-> UnkeyedRights(1), fully_keyed |-> FALSE]
    /\ Len(children) = 3
    /\ AllKeyed(children)

\* C10, as the spec has it: all three children are created, the placeholder
\* is detached, and the parent is in the order of the new list.
C10_AllCreated ==
    EmptyToThree =>
        /\ \A i \in 1..3 : Created(i)
        /\ TimesDetached(RHandle(1)) = 1
        /\ InOrder
\* C10, amended: the two rightmost children are created, the leftmost one
\* is applied with the placeholder as previous, the list detaches nothing,
\* and the parent is in the order of the new list.
C10_EmptyToNonEmpty ==
    EmptyToThree =>
        /\ Created(3) /\ Created(2)
        /\ PatchedFrom(1, RHandle(1))
        /\ Detaches = {}
        /\ InOrder
C10_Witness == EmptyToThree /\ path = "unkeyed" /\ Cardinality(Applies) = 3

\* C11: a call of VList::apply on a list without children first appends
\* exactly one child, which has no key; a list with children is reconciled
\* as it is; so the reconciler never gets an empty new side, every call
\* applies at least one node, and the list has a child afterwards.
C11_Placeholder ==
    [][(Building /\ pc' = "applied") =>
          /\ children = <<>> => /\ Len(children') = 1
                                /\ ~HasKey(children'[1])
          /\ children # <<>> => KeysOf(children') = KeysOf(children)
          /\ Len(children') >= 1
          /\ \E n \in 1..Len(log') : log'[n].op = "apply"]_vars
\* An empty list has replaced a list of several nodes: the placeholder is
\* the only child.
C11_Witness ==
    /\ Applied
    /\ given.children = <<>>
    /\ Len(children) = 1
    /\ ~HasKey(children[1])
    /\ Len(Rights) >= 2

\* The handles of previous nodes the reconciler passed to a call.
Consumed == {log[n].r : n \in 1..Len(log)} \ {Null}

\* C12: VList::apply has run the keyed reconciler if and only if the flag of
\* the new list, as it is after the placeholder rule, and the fully-keyed
\* value of the previous side are both true, and the unkeyed one otherwise;
\* the previous side is the children and the stored flag of a VList
\* ancestor, the ancestor alone with has_key for any other ancestor, and
\* nothing with true when there is no ancestor.
C12_Dispatch ==
    Applied =>
       LET prev == IF ancestor.kind = "vlist" THEN ancestor.children
                   ELSE IF ancestor.kind = "vnode" THEN <<ancestor.children[1]>>
                   ELSE <<>>
           prev_keyed == IF ancestor.kind = "vlist" THEN ancestor.fully_keyed
                         ELSE IF ancestor.kind = "vnode"
                              THEN HasKey(ancestor.children[1])
                              ELSE TRUE
       IN /\ path \in {"keyed", "unkeyed"}
          /\ path = "keyed" <=> (fully_keyed /\ prev_keyed)
          /\ given.children = <<>> => path = "unkeyed"
          /\ Consumed \subseteq Range(HandlesOf(prev))
          /\ (path = "unkeyed" \/ Injective(KeysOf(prev)))
                => Consumed = Range(HandlesOf(prev))
\* A list of keyed nodes has replaced a single keyed node that is not a
\* list: the keyed reconciler ran.
C12_Witness ==
    /\ Applied
    /\ ancestor.kind = "vnode"
    /\ path = "keyed"
    /\ Len(children) >= 2

AllHaveKeys == fully_keyed <=> AllKeyed(children)

\* C13 as stated: in every reachable state fully_keyed is true if and only
\* if every child has a key.
C13_Iff == AllHaveKeys

\* C13, amended: in every reachable state fully_keyed is true only if every
\* child has a key; the converse is kept by new, with_children, add_child,
\* add_children, recheck_fully_keyed and apply, and can be lost by a mutable
\* dereference, by what the caller does with it, and by detach.
C13_Invariant ==
    [][/\ fully_keyed' => AllKeyed(children')
       /\ (AllHaveKeys /\ ~AllHaveKeys') => (DerefMut \/ Mutate \/ Detach)]_vars
\* A list whose flag was false has been detached: it has no children, and
\* the flag is false still.
C13_Witness ==
    /\ pc = "detached"
    /\ children = <<>>
    /\ ~fully_keyed

\* C14: a mutable dereference sets fully_keyed to false whatever the children
\* are and does not change the children; recheck_fully_keyed sets the flag to
\* true if and only if every child has a key, leaves the children as they
\* are, and has no further effect when repeated; and apply of a list whose
\* flag is false runs the unkeyed reconciler, even if every child has a key.
C14_DerefRecheck ==
    [][/\ (pc' = "borrowed" /\ DerefMut) => (~fully_keyed' /\ children' = children)
       /\ (pc' = "build" /\ RecheckFullyKeyed) =>
             /\ fully_keyed' <=> AllKeyed(children)
             /\ children' = children
             /\ recheck_fully_keyed([children |-> children',
                                     fully_keyed |-> fully_keyed'])
                   = [children |-> children', fully_keyed |-> fully_keyed']
       /\ (Building /\ pc' = "applied" /\ ~fully_keyed) => path' = "unkeyed"]_vars
\* A list of several keyed children whose flag was false when apply received
\* it has replaced a fully keyed list: the unkeyed reconciler ran.
C14_Witness ==
    /\ Applied
    /\ path = "unkeyed"
    /\ ~given.fully_keyed
    /\ Len(given.children) >= 2
    /\ AllKeyed(given.children)
    /\ RightsOf(ancestor).fully_keyed
    /\ Rights # <<>>

\* The children a step appended.
Appended == SubSeq(children', Len(children) + 1, Len(children'))
\* The flag after add_child on each of cs in turn, as C15 states add_child.
RECURSIVE FlagAfter(_, _)
FlagAfter(flag, cs) ==
    IF cs = <<>> THEN flag ELSE FlagAfter(flag /\ HasKey(Head(cs)), Tail(cs))

\* (A step that leaves a list under construction is one of add_child, of
\* add_children, or of recheck_fully_keyed.)
\* C15: add_child appends the node as the last child and sets fully_keyed to
\* the old flag and the node's has_key, so never from false to true;
\* add_children leaves the children and the flag that add_child on each
\* element in order leaves; with_children leaves the children and the flag
\* of new followed by add_children.
C15_Builders ==
    [][/\ (pc' = "build" /\ Len(children) < MaxAdd /\ AddChild) =>
             /\ Len(children') = Len(children) + 1
             /\ SubSeq(children', 1, Len(children)) = children
             /\ fully_keyed' <=> (fully_keyed /\ HasKey(children'[Len(children')]))
             /\ ~fully_keyed => ~fully_keyed'
       /\ (Building /\ pc' = "build" /\ ~RecheckFullyKeyed) =>
             /\ SubSeq(children', 1, Len(children)) = children
             /\ fully_keyed' <=> FlagAfter(fully_keyed, Appended)
       /\ (pc = "start" /\ pc' = "build") =>
             [children |-> children', fully_keyed |-> fully_keyed']
                = add_children(new, children')]_vars
\* add_child has added a keyed child to a list whose flag was false.
C15_Witness ==
    /\ pc = "build"
    /\ Len(children) = MaxAdd
    /\ ~HasKey(children[1])
    /\ HasKey(children[Len(children)])
    /\ ~fully_keyed

\* A key occurs more than once among the new nodes or among the rights.
DuplicateKeys == ~Injective(KeysOf(given.children)) \/ ~Injective(RightsKeys)

\* C16: the keyed reconciler, given fully keyed sides on which a key occurs
\* twice, on either side or on both, completes: no call of it fails, no
\* range it takes is out of range, every new node has been rendered, and
\* apply returns the NodeRef of the first new node.
C16_DuplicateSafe ==
    (Applied /\ path = "keyed" /\ DuplicateKeys) =>
       /\ ok
       /\ InRange(Zones(given.children, Rights))
       /\ \A i \in 1..Len(children) : children[i].h # Null
       /\ first = children[1].h
\* Both sides have a key twice, and the reconciler diffed a middle.
C16_Witness ==
    /\ Applied
    /\ path = "keyed"
    /\ ~Injective(KeysOf(given.children))
    /\ ~Injective(RightsKeys)
    /\ ~Zones(given.children, Rights).fast
    /\ ok

\* The positions of the middle of the rights, when the keyed reconciler
\* diffed a middle.
MiddleOf(z) == IF z.fast THEN {} ELSE (z.from_start + 1)..z.rights_to
OldMiddle ==
    IF Applied /\ path = "keyed" /\ ok
    THEN UNION {MiddleOf(z) : z \in {Zones(given.children, Rights)}}
    ELSE {}
\* The positions among middle with the key of position j.
SameKeyAs(middle, j) == {n \in middle : Rights[n].key = Rights[j].key}
TimesMoved(r) == Cardinality({n \in Moves : log[n].r = r})

\* C17: when nodes in the middle of the rights have the same key, the
\* leftmost of them is the one in rights_diff, and is patched or detached,
\* once; any other is passed to no apply, is not moved and is not detached:
\* its handle stays in the parent.
C17_LeftmostWins ==
    (Applied /\ ~Injective(RightsKeys)) =>
       \A middle \in {OldMiddle} : \A j \in middle :
          Cardinality(SameKeyAs(middle, j)) >= 2 =>
             IF \A n \in SameKeyAs(middle, j) : j <= n
             THEN /\ TimesPatched(Rights[j].h) + TimesDetached(Rights[j].h) = 1
                  /\ TimesDetached(Rights[j].h) = 1 => ~InDom(dom, Rights[j].h)
             ELSE /\ TimesPatched(Rights[j].h) = 0
                  /\ TimesDetached(Rights[j].h) = 0
                  /\ TimesMoved(Rights[j].h) = 0
                  /\ InDom(dom, Rights[j].h)
\* Two nodes in the middle of the rights have the same key; a new node was
\* patched from the left one.
C17_Witness ==
    \E j \in OldMiddle :
       /\ \E n \in SameKeyAs(OldMiddle, j) : j < n
       /\ TimesPatched(Rights[j].h) = 1

\* The length of the longest common prefix of the keys of both sides.
CommonPrefix ==
    Cardinality({n \in 1..Min(Len(given.children), Len(Rights)) :
                   \A j \in 1..n : given.children[j].key = Rights[j].key})
\* What apply_unkeyed does on the sides VList::apply was given.
UnkeyedRun ==
    apply_unkeyed(Writer(next_sibling, DomOf(ancestor, next_sibling), given.children),
                  Rights)

\* C18: when the longest common prefix of the keys is as long as the shorter
\* side, the keyed reconciler makes the calls apply_unkeyed makes on the same
\* sides, in the same order, returns the same NodeRef and moves no node;
\* otherwise what it does is not what apply_unkeyed does.
C18_FastPath ==
    (Applied /\ path = "keyed" /\ ok) =>
       \A unkeyed \in {UnkeyedRun} :
          IF CommonPrefix = Min(Len(given.children), Len(Rights))
          THEN /\ log = unkeyed.log
               /\ first = unkeyed.next_sibling
               /\ dom = unkeyed.dom
               /\ Moves = {}
          ELSE log # unkeyed.log
\* The new keys continue the old ones, which are several: the keyed
\* reconciler patched the old nodes and added the rest.
C18_Witness ==
    /\ Applied
    /\ path = "keyed"
    /\ Len(Rights) >= 2
    /\ Len(children) > Len(Rights)
    /\ CommonPrefix = Len(Rights)
    /\ log = UnkeyedRun.log

\* The fragments of the children from the i-th on, one after the other.
RECURSIVE FragmentsFrom(_)
FragmentsFrom(i) ==
    IF i > Len(children) THEN <<>> ELSE ssr.frag[i] \o FragmentsFrom(i + 1)

\* C19: render_to_string appends to the sink the fragments of the children
\* in the order of the children, each once, whatever the order the children
\* wrote and completed in; the sink is written only when every child has
\* completed; and the children of the list are not changed.
C19_OrderPreserving ==
    [][/\ children' = children
       /\ ssr'.pc # "done" => ssr'.w = ssr.w
       /\ (ssr.pc # "done" /\ ssr'.pc = "done") =>
             /\ Range(ssr.order) = 1..Len(children)
             /\ ssr'.w = ssr.w \o FragmentsFrom(1)]_vars
\* The last of several children completed first, every child wrote
\* something, and the sink has been written.
C19_Witness ==
    /\ pc = "ssr"
    /\ ssr.pc = "done"
    /\ Len(children) >= 2
    /\ ssr.order[1] = Len(children)
    /\ \A i \in 1..Len(children) : Len(ssr.frag[i]) >= 1

\* The applies before the n-th call.
AppliesBefore(n) == {m \in Applies : m < n}
\* The reconciler's next_sibling when it made the n-th call: what the last
\* of the applies before it returned, or what VList::apply was given.
AnchorAt(before) ==
    IF before = {}
    THEN next_sibling
    ELSE log[CHOOSE m \in before : \A k \in before : k <= m].ret

\* C20: in every call of VList::apply each new node is applied exactly
\* once, the nodes from the right to the left; the first apply gets the
\* next_sibling VList::apply was given and every later one what the apply
\* before it returned, whatever was detached or moved in between; and
\* VList::apply returns what the apply of the first new node returned.
C20_AnchorThreading ==
    Applied =>
       \A applies \in {Applies} :
          /\ \A i \in 1..Len(children) :
                Cardinality({n \in applies : log[n].l = i}) = 1
          /\ \A n \in applies :
                /\ log[n].l \in 1..Len(children)
                /\ \A m \in applies : n < m => log[n].l > log[m].l
                /\ log[n].at = AnchorAt({m \in applies : m < n})
                /\ log[n].l = 1 => first = log[n].ret
\* The keyed reconciler moved and detached nodes between applies of
\* several new nodes.
C20_Witness ==
    /\ Applied
    /\ path = "keyed"
    /\ Len(children) >= 3
    /\ \E m \in Moves : \E d \in Detaches : \E n \in Applies :
          /\ AppliesBefore(m) # {}
          /\ m < d
          /\ d < n

\* The position in the rights of the node with handle r.
PositionOf(r) == CHOOSE j \in 1..Len(Rights) : Rights[j].h = r
\* The n-th call is an apply that a move_before of the same previous node to
\* the same next_sibling went before.
MovedFirst(n) ==
    /\ n > 1
    /\ log[n - 1].op = "move"
    /\ log[n - 1].r = log[n].r
    /\ log[n - 1].at = log[n].at
\* The applies of new middle nodes that took a node out of rights_diff.
MatchedIn(z) ==
    IF z.fast THEN {}
    ELSE {n \in Applies : /\ log[n].l \in (z.from_start + 1)..z.lefts_to
                          /\ log[n].r # Null}
\* The node at position j of the rights and the i-th new node have a right
\* neighbour in their middles, and of the same key.
SameRightNeighbour(z, j, i) ==
    /\ j + 1 <= z.rights_to
    /\ i + 1 <= z.lefts_to
    /\ Rights[j + 1].key = given.children[i + 1].key

\* C21: a new node of the middle whose key is in rights_diff is patched
\* without a move if and only if the right neighbour of the old node in the
\* old middle and the right neighbour of the new node in the new middle are
\* both there and have the same key; in every other case the old node is
\* moved before the current next_sibling, once, right before it is patched.
C21_MoveDecision ==
    (Applied /\ path = "keyed" /\ ok) =>
       \A z \in {Zones(given.children, Rights)} : \A n \in MatchedIn(z) :
          IF SameRightNeighbour(z, PositionOf(log[n].r), log[n].l)
          THEN TimesMoved(log[n].r) = 0
          ELSE MovedFirst(n) /\ TimesMoved(log[n].r) = 1
\* In one call a matched node of the middle stayed where it was and the
\* rightmost new node of the middle, matched too, was moved.
C21_Witness ==
    /\ Applied /\ path = "keyed" /\ ok
    /\ \E z \in {Zones(given.children, Rights)} :
          /\ \E n \in MatchedIn(z) : TimesMoved(log[n].r) = 0
          /\ \E n \in MatchedIn(z) : log[n].l = z.lefts_to /\ MovedFirst(n)

\* The keys that occur in the middle of both sides.
CommonMiddleKeys(z) ==
    {given.children[i].key : i \in (z.from_start + 1)..z.lefts_to}
       \cap {Rights[j].key : j \in (z.from_start + 1)..z.rights_to}

\* C22: move_before is called on old nodes of the middle only, each at most
\* once and right before the apply of a new node of the middle, so at most
\* as often as there are keys common to both middles; it is never called by
\* the unkeyed reconciler, nor when the keyed one hands over to it.
C22_MoveBound ==
    (Applied /\ ok) =>
       IF path = "unkeyed" THEN Moves = {}
       ELSE \A z \in {Zones(given.children, Rights)} :
               IF z.fast THEN Moves = {}
               ELSE /\ \A m \in Moves :
                          /\ PositionOf(log[m].r) \in (z.from_start + 1)..z.rights_to
                          /\ TimesMoved(log[m].r) = 1
                          /\ m < Len(log)
                          /\ log[m + 1].op = "apply"
                          /\ log[m + 1].r = log[m].r
                          /\ log[m + 1].l \in (z.from_start + 1)..z.lefts_to
                    /\ Cardinality(Moves) <= Cardinality(CommonMiddleKeys(z))
\* A call with a head, a tail and a middle in which every common key was
\* moved.
C22_Witness ==
    /\ Applied /\ path = "keyed" /\ ok
    /\ \E z \in {Zones(given.children, Rights)} :
          /\ ~z.fast
          /\ z.from_start >= 1
          /\ z.from_end >= 1
          /\ Cardinality(Moves) >= 2
          /\ Cardinality(Moves) = Cardinality(CommonMiddleKeys(z))

\* The phase of apply_keyed the n-th call belongs to, by what is called on
\* which node: 1 the tail, 2 the middle, 3 the removal, 4 the head.
PhaseOf(z, n) ==
    IF log[n].op = "detach" THEN 3
    ELSE IF log[n].op = "move" THEN 2
    ELSE IF log[n].l > z.lefts_to THEN 1
    ELSE IF log[n].l > z.from_start THEN 2
    ELSE 4
\* The handles of the nodes of the old middle that are first of their key
\* there and whose key no new node of the middle has.
Stale(z) ==
    {Rights[j].h : j \in {n \in (z.from_start + 1)..z.rights_to :
        /\ \A m \in (z.from_start + 1)..(n - 1) : Rights[m].key # Rights[n].key
        /\ \A i \in (z.from_start + 1)..z.lefts_to :
              given.children[i].key # Rights[n].key}}

\* C23: when apply_keyed does not hand over to apply_unkeyed, it patches the
\* tail first, then moves, patches and adds in the middle, then detaches
\* every node left in rights_diff, each once, then patches the head: no
\* detach comes before a call of the middle or after one of the head, and
\* nothing is left in rights_diff.
C23_Phases ==
    (Applied /\ path = "keyed" /\ ok) =>
       \A z \in {Zones(given.children, Rights)} :
          ~z.fast =>
             /\ \A n \in 1..Len(log) : \A m \in (n + 1)..Len(log) :
                   PhaseOf(z, n) <= PhaseOf(z, m)
             /\ {log[n].r : n \in Detaches} = Stale(z)
             /\ Cardinality(Detaches) = Cardinality(Stale(z))
\* A call with calls of all four phases, two detaches among them.
C23_Witness ==
    /\ Applied /\ path = "keyed" /\ ok
    /\ \E z \in {Zones(given.children, Rights)} :
          /\ ~z.fast
          /\ \A p \in 1..4 : \E n \in 1..Len(log) : PhaseOf(z, n) = p
          /\ Cardinality(Detaches) >= 2
          /\ Moves # {}

\* The length of the longest common suffix of the keys after the first p
\* keys of both sides.
CommonSuffixAfter(p) ==
    Cardinality({n \in 1..(Min(Len(given.children), Len(Rights)) - p) :
                   \A j \in 0..(n - 1) :
                      given.children[Len(given.children) - j].key
                         = Rights[Len(Rights) - j].key})

\* C24: from_start is the length of the longest common prefix of the keys
\* and, when apply_keyed does not hand over to apply_unkeyed, from_end that
\* of the longest common suffix of the keys after it; then from_start is less
\* than the length of the shorter side and from_start + from_end is at most
\* that length, so that head, middle and tail of each side are ranges that
\* follow each other and cover the side, and the heads and the tails of the
\* two sides are as long as each other.
C24_ZonesInBounds ==
    (Applied /\ path = "keyed") =>
       \A z \in {Zones(given.children, Rights)} :
          LET nl == Len(given.children)
              nr == Len(Rights)
          IN /\ z.from_start = CommonPrefix
             /\ z.fast <=> (CommonPrefix = Min(nl, nr))
             /\ ~z.fast =>
                   /\ ok
                   /\ z.from_end = CommonSuffixAfter(CommonPrefix)
                   /\ z.from_start < Min(nl, nr)
                   /\ z.from_start + z.from_end <= Min(nl, nr)
                   /\ 0 <= z.from_start /\ z.from_start <= z.lefts_to /\ z.lefts_to <= nl
                   /\ z.from_start <= z.rights_to /\ z.rights_to <= nr
                   /\ nl - z.lefts_to = z.from_end
                   /\ nr - z.rights_to = z.from_end
\* Repeated keys make the common prefix and the common suffix of the whole
\* sides overlap; the middle of the rights is empty.
C24_Witness ==
    /\ Applied /\ path = "keyed" /\ ok
    /\ ~Injective(KeysOf(given.children))
    /\ \E z \in {Zones(given.children, Rights)} :
          /\ ~z.fast
          /\ z.from_start >= 1
          /\ z.from_end >= 1
          /\ z.rights_to = z.from_start
          /\ z.from_start + CommonSuffixAfter(0) > Len(Rights)

\* The key of the node of the rights with handle r.
KeyOfRight(r) == Rights[PositionOf(r)].key

\* C25: whenever the keyed reconciler, or apply_unkeyed when the keyed one
\* hands over to it, applies a new node with a previous node, the two have
\* the same key: in the head, in the middle and in the tail, and with keys
\* that occur more than once.
C25_PatchSameKey ==
    (Applied /\ path = "keyed" /\ ok) =>
       \A n \in Applies :
          log[n].r # Null =>
             /\ log[n].r \in Range(HandlesOf(Rights))
             /\ given.children[log[n].l].key = KeyOfRight(log[n].r)
\* With a key twice among the rights, a node was patched in the middle and
\* another one in the head or in the tail.
C25_Witness ==
    /\ Applied /\ path = "keyed" /\ ok
    /\ ~Injective(RightsKeys)
    /\ \E z \in {Zones(given.children, Rights)} :
          /\ ~z.fast
          /\ \E n \in Applies :
                /\ log[n].r # Null
                /\ (log[n].l <= z.from_start \/ log[n].l > z.lefts_to)
          /\ \E n \in Applies : /\ log[n].r # Null
                                /\ log[n].l > z.from_start
                                /\ log[n].l <= z.lefts_to

\* C26: in every reachable state a true fully_keyed means that every child
\* has a key; so when VList::apply has run the keyed reconciler, every node
\* of both sides has a key and map_keys! has not failed.
C26_FlagSound ==
    /\ fully_keyed => \A i \in 1..Len(children) : HasKey(children[i])
    /\ (Applied /\ path = "keyed") =>
          /\ \A i \in 1..Len(given.children) : HasKey(given.children[i])
          /\ \A j \in 1..Len(Rights) : HasKey(Rights[j])
          /\ ok
\* The keyed reconciler has run on a list of MaxAdd children, one key
\* twice among them, against a longer list.
C26_Witness ==
    /\ Applied
    /\ path = "keyed"
    /\ Len(given.children) = MaxAdd
    /\ ~Injective(KeysOf(given.children))
    /\ ancestor.kind = "vlist"
    /\ Len(Rights) > MaxAdd

\* The list as it is now, as the ancestor of a later call of VList::apply.
AsAncestor == [kind |-> "vlist", children |-> children, fully_keyed |-> fully_keyed]
\* Fully keyed lists of one and of two new children.
KeyedNews == {with_children([i \in 1..n |-> Fresh(i)]) : n \in 1..2}

\* C27: VList::apply of a list without children leaves the flag of the list
\* false and runs the unkeyed reconciler, whatever the previous side is; and
\* a later VList::apply that gets the rendered list as its ancestor runs the
\* unkeyed reconciler too, even when the new list is fully keyed.
C27_EmptyUnkeyed ==
    (Applied /\ given.children = <<>>) =>
       /\ ~fully_keyed
       /\ path = "unkeyed"
       /\ \A s \in KeyedNews :
             /\ s.fully_keyed
             /\ ~apply(s, AsAncestor, first, dom, <<>>).keyed
             /\ ~UseKeyed(s, AsAncestor)
\* A list without children has replaced a fully keyed list of MaxLen
\* children.
C27_Witness ==
    /\ Applied
    /\ given.children = <<>>
    /\ given.fully_keyed
    /\ path = "unkeyed"
    /\ ancestor.kind = "vlist"
    /\ ancestor.fully_keyed
    /\ Len(Rights) = MaxLen

\* C28: VList::detach detaches every child once, from the left to the right,
\* each with the flag the list was given, and leaves the list without
\* children; the detaches a reconciler makes all have the flag false.
C28_Detach ==
    [][/\ (pc = "applied" /\ pc' = "detached") =>
             /\ Len(log') = Len(children)
             /\ \A i \in 1..Len(children) :
                   /\ log'[i].op = "detach"
                   /\ log'[i].r = children[i].h
                   /\ log'[i].ptd = log'[1].ptd
             /\ children' = <<>>
             /\ ok'
       /\ (Building /\ pc' = "applied") =>
             \A n \in 1..Len(log') : log'[n].op = "detach" => ~log'[n].ptd]_vars
\* A list of several children has been detached with parent_to_detach true.
C28_Witness ==
    /\ pc = "detached"
    /\ children = <<>>
    /\ Len(log) >= 3
    /\ \A n \in 1..Len(log) : log[n].op = "detach" /\ log[n].ptd

\* C29: VList::shift shifts every child once, the children from the right
\* to the left, the rightmost before the next_sibling it was given and every
\* other child before the first node of the child to its right; the
\* children then are in the new parent in their order, right before that
\* next_sibling, and none is left in the old parent; the children of the
\* list and its flag are as they were.
C29_Shift ==
    [][(pc = "applied" /\ pc' = "shifted") =>
          LET n == Len(children)
              sibling == log'[1].at
          IN /\ Len(log') = n
             /\ \A k \in 1..n :
                   /\ log'[k].op = "shift"
                   /\ log'[k].r = children[n + 1 - k].h
                   /\ k > 1 => log'[k].at = children[n + 2 - k].h
             /\ sibling \in {Sib2, Null}
             /\ next_parent' = <<Prev2>> \o HandlesOf(children)
                                  \o (IF sibling = Null THEN <<>> ELSE <<sibling>>)
             /\ \A i \in 1..n : ~InDom(dom', children[i].h)
             /\ children' = children
             /\ fully_keyed' = fully_keyed
             /\ ok']_vars
\* A list of MaxShift children that were not in the order of the list in
\* the old parent has been shifted before a child of the new parent.
C29_Witness ==
    /\ pc = "shifted"
    /\ Len(children) = MaxShift
    /\ next_parent = <<Prev2>> \o HandlesOf(children) \o <<Sib2>>
    /\ \E i, j \in 1..Len(children) : i < j /\ children[i].h = RHandle(MaxShift)

\* C30: a call of VList::apply is over after a bounded number of steps,
\* whatever the two sides are: it has applied as many nodes as the new list
\* has children after the placeholder rule, detached at most as many nodes
\* as the previous side has and moved at most each new child once; no
\* apply or detach is made a second time and no other step is taken.
C30_Terminates ==
    Applied =>
          /\ ok
          /\ Cardinality(Applies) = Len(children)
          /\ Cardinality(Detaches) <= Len(Rights)
          /\ Cardinality(Moves) <= Len(children)
          /\ Len(log) = Cardinality(Applies) + Cardinality(Detaches) + Cardinality(Moves)
          /\ \A n, m \in 1..Len(log) :
                (log[n].op = log[m].op /\ log[n].op # "move"
                    /\ log[n].l = log[m].l /\ log[n].r = log[m].r
                    /\ (log[n].l # 0 \/ log[n].r # Null)) => n = m
\* A call that applied each of three or more new children, moved one of
\* them and detached two or more nodes of the previous side.
C30_Witness ==
    /\ Applied
    /\ Len(children) >= 3
    /\ Cardinality(Applies) = Len(children)
    /\ Cardinality(Detaches) >= 2
    /\ Cardinality(Moves) >= 1

=============================================================================
